---- MODULE Spec2Model ----
(***************************************************************************)
(* A model of cloudflare-r2-rs (src/src/r2.rs): R2Manager, a thin client   *)
(* over an S3-compatible object store.                                     *)
(*                                                                         *)
(* Two specifications are given.                                           *)
(*   SpecNew : tasks running R2Manager::new concurrently (one await point, *)
(*             the SDK's load_from_env), with every combination of         *)
(*             arguments.                                                  *)
(*   Spec    : tasks holding clones of one R2Manager and calling           *)
(*             create_bucket, delete_bucket, upload, get, delete and       *)
(*             get_bucket_name against a store reached through a          *)
(*             transport that may fail.                                    *)
(***************************************************************************)
EXTENDS Integers, Sequences, FiniteSets, TLC

VARIABLES
    env,        \* the ambient SDK configuration read by aws_config::load_from_env
    clients,    \* the heap of Arc<Client> allocations: address -> Option<config>
    mgr,        \* per task: the R2Manager it owns, Option<[bucket_name, client]>
    pc,         \* per task: where its current async call is suspended
    newf,       \* per task: the locals of its R2Manager::new call
    frame,      \* per task: the locals of its current (or last) operation
    calls,      \* how many operations the tasks have started
    store,      \* the remote store: bucket name -> Option<key -> Option<object>>
    lastWriter  \* per key: the task whose put/delete the store applied last (0: none)

vars == <<env, clients, mgr, pc, newf, frame, calls, store, lastWriter>>

-----------------------------------------------------------------------------
(* Bounds and input sets *)

\* operations the tasks may start, all together, in Spec
MaxCalls == 2

Tasks == {1, 2}

BucketNames == {"test-bucket", "my-bucket"}
Uris == {"http://localhost:9000", "https://s3.eu-west-1.io.cloud.ovh.net"}
Regions == {"eu-west-1"}
ClientIds == {"k", "some-id-55353-53535"}
Secrets == {"s", "some-secret-55353-53535"}
Keys == {"obj1", "test"}
Bodies == {<<>>, <<104, 105>>}
CacheControls == {"max-age=60"}
ContentTypes == {"text/plain"}

-----------------------------------------------------------------------------
(* Option<T>, Result<T, E> *)

None == <<>>
Some(v) == <<v>>
IsSome(o) == o # <<>>
Unwrap(o) == o[1]
OptionOf(S) == {None} \cup {Some(v) : v \in S}

Ok(v) == <<"Ok", v>>
Err(e) == <<"Err", e>>
IsOk(r) == r[1] = "Ok"

(* R2Endpoint *)
Http(uri) == <<"Http", uri>>
Bucket == <<"Bucket">>
Endpoints == {Http(u) : u \in Uris} \cup {Bucket}

-----------------------------------------------------------------------------
(* R2Manager::new *)

\* region.unwrap_or_else(|| "us-east-1".to_string())
ResolveRegionNoDefault(region) == IF IsSome(region) THEN Unwrap(region) ELSE ""
ResolveRegion(region) == IF IsSome(region) THEN Unwrap(region) ELSE "us-east-1"

\* match endpoint { Http(uri) => uri, Bucket => format!("https://s3.{region}.amazonaws.com") }
ResolveEndpointFromRegion(endpoint, region) == "https://s3." \o region \o ".amazonaws.com"
ResolveEndpoint(endpoint, region) ==
    IF endpoint[1] = "Http"
    THEN endpoint[2]
    ELSE "https://s3." \o region \o ".amazonaws.com"

\* Credentials::new(client_id, secret, None, None, "custom")
NewCredentials(client_id, secret) ==
    [access_key_id |-> client_id, secret_access_key |-> secret,
     session_token |-> None, expires_after |-> None, provider_name |-> "custom"]

\* aws_config::load_from_env().await: the defaults the environment provides
LoadFromEnv(e) == e

\* .into_builder().credentials_provider(..).endpoint_url(..).region(..).build()
BuildConfigKeepEnv(base, shared_cred, endpoint_url, region) ==
    [credentials_provider |->
        IF IsSome(base.credentials_provider) THEN base.credentials_provider ELSE Some(shared_cred),
     endpoint_url |-> IF IsSome(base.endpoint_url) THEN base.endpoint_url ELSE Some(endpoint_url),
     region |-> IF IsSome(base.region) THEN base.region ELSE Some(region)]
BuildConfig(base, shared_cred, endpoint_url, region) ==
    [base EXCEPT !.credentials_provider = Some(shared_cred),
                 !.endpoint_url = Some(endpoint_url),
                 !.region = Some(region)]

EnvConfigs ==
    {[credentials_provider |-> None, endpoint_url |-> None, region |-> None],
     [credentials_provider |-> Some(NewCredentials("env-id", "env-secret")),
      endpoint_url |-> Some("https://env.example"),
      region |-> Some("ap-south-1")]}

NoNewFrame == [bucket_name |-> "", endpoint |-> Bucket, client_id |-> "", secret |-> "",
               region_arg |-> None, region |-> "", endpoint_url |-> "", shared_cred |-> None]

\* new, up to its only await: lines 41-60
NewCall(t, bucket_name, endpoint, client_id, secret, region_arg) ==
    /\ pc[t] = "start"
    /\ LET region == ResolveRegion(region_arg)
           endpoint_url == ResolveEndpoint(endpoint, region)
           cred == NewCredentials(client_id, secret)
       IN newf' = [newf EXCEPT ![t] =
              [bucket_name |-> bucket_name, endpoint |-> endpoint, client_id |-> client_id,
               secret |-> secret, region_arg |-> region_arg, region |-> region,
               endpoint_url |-> endpoint_url, shared_cred |-> Some(cred)]]
    /\ pc' = [pc EXCEPT ![t] = "load"]
    /\ UNCHANGED <<env, clients, mgr, frame, calls, store, lastWriter>>

\* new, from the await to the return: lines 60-72
NewReturn(t) ==
    /\ pc[t] = "load"
    /\ LET f == newf[t]
           s3_config == BuildConfig(LoadFromEnv(env), Unwrap(f.shared_cred),
                                    f.endpoint_url, f.region)
       IN /\ clients' = [clients EXCEPT ![t] = Some(s3_config)]
          /\ mgr' = [mgr EXCEPT ![t] = Some([bucket_name |-> f.bucket_name, client |-> t])]
    /\ pc' = [pc EXCEPT ![t] = "ready"]
    /\ UNCHANGED <<env, newf, frame, calls, store, lastWriter>>

\* the owner drops its R2Manager (no explicit teardown: the Arc is released)
DropManager(t) ==
    /\ pc[t] = "ready"
    /\ mgr' = [mgr EXCEPT ![t] = None]
    /\ clients' = [clients EXCEPT ![t] = None]
    /\ newf' = [newf EXCEPT ![t] = NoNewFrame]
    /\ pc' = [pc EXCEPT ![t] = "start"]
    /\ UNCHANGED <<env, frame, calls, store, lastWriter>>

\* get_bucket_name
GetBucketName(m) == m.bucket_name

-----------------------------------------------------------------------------
(* The operations' frames *)

\* object_name and object_bytes stay readable after the call returns, as the
\* record of what the task's last call was; outcome, nreq and applied record
\* what happened to it (was the result Ok, how many requests were sent, did the
\* store apply the request).
NoFrame == [op |-> "none", object_name |-> "", object_bytes |-> <<>>,
            cache_control |-> None, content_type |-> None,
            request |-> None, result |-> None, body |-> None, ret |-> None,
            log |-> <<>>, outcome |-> "", nreq |-> 0, applied |-> FALSE]

EmptyBucket == [k \in Keys |-> None]

InitCommon ==
    /\ frame = [t \in Tasks |-> NoFrame]
    /\ calls = 0
    /\ lastWriter = [k \in Keys |-> 0]

InitNew ==
    /\ InitCommon
    /\ env \in EnvConfigs
    /\ clients = [t \in Tasks |-> None]
    /\ mgr = [t \in Tasks |-> None]
    /\ pc = [t \in Tasks |-> "start"]
    /\ newf = [t \in Tasks |-> NoNewFrame]
    /\ store = [b \in BucketNames |-> None]

NextNew ==
    \E t \in Tasks :
        \/ \E b \in BucketNames, e \in Endpoints, id \in ClientIds, s \in Secrets,
              r \in OptionOf(Regions) : NewCall(t, b, e, id, s, r)
        \/ NewReturn(t)
        \/ DropManager(t)

SpecNew == InitNew /\ [][NextNew]_vars

-----------------------------------------------------------------------------
(* The SDK's fluent request builders, as the operations use them *)

Unit == <<>>

NewRequest(operation) ==
    [operation |-> operation, bucket |-> None, key |-> None, body |-> None,
     cache_control |-> None, content_type |-> None]
SetBucket(r, b) == [r EXCEPT !.bucket = Some(b)]
SetKeyShared(r, k) == [r EXCEPT !.key = Some("obj1")]
SetKey(r, k) == [r EXCEPT !.key = Some(k)]
SetBody(r, stream) == [r EXCEPT !.body = Some(stream)]
SetCacheControl(r, v) == [r EXCEPT !.cache_control = Some(v)]
SetContentType(r, v) == [r EXCEPT !.content_type = Some(v)]

\* A ByteStream is a sequence of chunks.  SdkBody::from(&[u8]) copies the slice
\* into one chunk; a body received from the transport arrives byte by byte.
ByteStreamNew(bytes) == <<bytes>>
ByteStreamFromWire(bytes) == [i \in 1..Len(bytes) |-> <<bytes[i]>>]

RECURSIVE Collect(_)
\* body.collect().await ... .into_bytes().to_vec(): the chunks, concatenated
CollectFirstChunk(stream) == IF stream = <<>> THEN <<>> ELSE Head(stream)
Collect(stream) == IF stream = <<>> THEN <<>> ELSE Head(stream) \o Collect(Tail(stream))

\* the bucket every request is addressed to: .bucket(&self.bucket_name)
RequestBucketFixed(self) == "my-bucket"
RequestBucket(self) == self.bucket_name

\* create_bucket: lines 82-84
CreateBucketRequest(self) == SetBucket(NewRequest("CreateBucket"), RequestBucket(self))

\* delete_bucket: lines 100-102
DeleteBucketRequest(self) == SetBucket(NewRequest("DeleteBucket"), RequestBucket(self))

\* upload: lines 127-140
UploadRequestEmptyHeaders(self, object_name, object_bytes, cache_control, content_type) ==
    LET r0 == SetBody(SetKey(SetBucket(NewRequest("PutObject"), RequestBucket(self)),
                             object_name), ByteStreamNew(object_bytes))
        r1 == SetCacheControl(r0, IF IsSome(cache_control) THEN Unwrap(cache_control) ELSE "")
    IN SetContentType(r1, IF IsSome(content_type) THEN Unwrap(content_type) ELSE "")
UploadRequest(self, object_name, object_bytes, cache_control, content_type) ==
    LET stream == ByteStreamNew(object_bytes)
        r0 == SetBody(SetKey(SetBucket(NewRequest("PutObject"), RequestBucket(self)),
                             object_name), stream)
        r1 == IF IsSome(cache_control) THEN SetCacheControl(r0, Unwrap(cache_control)) ELSE r0
        r2 == IF IsSome(content_type) THEN SetContentType(r1, Unwrap(content_type)) ELSE r1
    IN r2

\* get: lines 158-161
GetRequest(self, object_name) ==
    SetKey(SetBucket(NewRequest("GetObject"), RequestBucket(self)), object_name)

\* delete: lines 183-186
DeleteRequest(self, object_name) ==
    SetKey(SetBucket(NewRequest("DeleteObject"), RequestBucket(self)), object_name)

-----------------------------------------------------------------------------
(* The store behind send(): what an S3-compatible service does with a request *)

BucketIsEmpty(objects) == \A k \in Keys : objects[k] = None

Service(st, req) ==
    LET b == Unwrap(req.bucket)
        bk == st[b]
        fail(e) == [store |-> st, result |-> Err(e), applied |-> FALSE]
        done(st2, out) == [store |-> st2, result |-> Ok(out), applied |-> TRUE]
    IN CASE req.operation = "CreateBucket" ->
              IF IsSome(bk) THEN fail("BucketAlreadyOwnedByYou")
              ELSE done([st EXCEPT ![b] = Some(EmptyBucket)], Unit)
         [] req.operation = "DeleteBucket" ->
              IF ~IsSome(bk) THEN fail("NoSuchBucket")
              ELSE IF ~BucketIsEmpty(Unwrap(bk)) THEN fail("BucketNotEmpty")
              ELSE done([st EXCEPT ![b] = None], Unit)
         [] req.operation = "PutObject" ->
              IF ~IsSome(bk) THEN fail("NoSuchBucket")
              ELSE done([st EXCEPT ![b] = Some([Unwrap(bk) EXCEPT ![Unwrap(req.key)] =
                            Some([body |-> Collect(Unwrap(req.body)),
                                  cache_control |-> req.cache_control,
                                  content_type |-> req.content_type])])], Unit)
         [] req.operation = "GetObject" ->
              IF ~IsSome(bk) THEN fail("NoSuchBucket")
              ELSE IF ~IsSome(Unwrap(bk)[Unwrap(req.key)]) THEN fail("NoSuchKey")
              ELSE LET o == Unwrap(Unwrap(bk)[Unwrap(req.key)])
                   IN done(st, [body |-> ByteStreamFromWire(o.body),
                                cache_control |-> o.cache_control,
                                content_type |-> o.content_type])
         [] OTHER ->
              IF ~IsSome(bk) THEN fail("NoSuchBucket")
              ELSE done([st EXCEPT ![b] = Some([Unwrap(bk) EXCEPT ![Unwrap(req.key)] = None])],
                        Unit)

\* whether a request, once applied, writes its key
Writes(req) == req.operation \in {"PutObject", "DeleteObject"}

-----------------------------------------------------------------------------
(* The operations of R2Manager *)

Self(t) == Unwrap(mgr[t])

CanCall(t) == pc[t] = "idle" /\ calls < MaxCalls /\ IsSome(mgr[t])

\* request.send(): the request leaves, the task suspends on the await
Send(t, f, req) ==
    /\ frame' = [frame EXCEPT ![t] = [f EXCEPT !.request = Some(req), !.nreq = @ + 1]]
    /\ pc' = [pc EXCEPT ![t] = "send"]
    /\ calls' = calls + 1
    /\ UNCHANGED <<env, clients, mgr, newf, store, lastWriter>>

\* The log lines of the if result.is_ok() { .. } else { .. } that ends every
\* operation: a debug dump of the value, then info on success, error on failure.
LogOutcomeAlwaysInfo(result, ok_msg, err_msg) == << <<"debug", "{:?}">>, <<"info", ok_msg>> >>
LogOutcome(result, ok_msg, err_msg) ==
    IF IsOk(result)
    THEN << <<"debug", "{:?}">>, <<"info", ok_msg>> >>
    ELSE << <<"debug", "{:?}">>, <<"error", err_msg>> >>

\* the end of a call that returns (): the frame's borrowed arguments are released
Return(t, f, lines, value) ==
    /\ frame' = [frame EXCEPT ![t] =
          [f EXCEPT !.cache_control = None, !.content_type = None, !.result = None,
                    !.body = None, !.log = f.log \o lines, !.ret = Some(value),
                    !.outcome = IF IsOk(Unwrap(f.result)) THEN "ok" ELSE "err"]]
    /\ pc' = [pc EXCEPT ![t] = "idle"]
    /\ UNCHANGED <<env, clients, mgr, newf, calls, store, lastWriter>>

\* get_bucket_name: lines 76-78
GetBucketNameCall(t) ==
    /\ CanCall(t)
    /\ frame' = [frame EXCEPT ![t] =
          [NoFrame EXCEPT !.op = "get_bucket_name", !.ret = Some(GetBucketName(Self(t)))]]
    /\ calls' = calls + 1
    /\ UNCHANGED <<env, clients, mgr, pc, newf, store, lastWriter>>

\* create_bucket: lines 82-86
CreateBucketCall(t) ==
    /\ CanCall(t)
    /\ Send(t, [NoFrame EXCEPT !.op = "create_bucket"], CreateBucketRequest(Self(t)))

\* create_bucket: lines 88-95
CreateBucketReturn(t) ==
    /\ pc[t] = "resume" /\ frame[t].op = "create_bucket"
    /\ Return(t, frame[t],
              LogOutcome(Unwrap(frame[t].result),
                         "Created successfully " \o Self(t).bucket_name,
                         "Creation of " \o Self(t).bucket_name \o " failed."), Unit)

\* delete_bucket: lines 100-104
DeleteBucketCall(t) ==
    /\ CanCall(t)
    /\ Send(t, [NoFrame EXCEPT !.op = "delete_bucket"], DeleteBucketRequest(Self(t)))

\* delete_bucket: lines 106-113
DeleteBucketReturn(t) ==
    /\ pc[t] = "resume" /\ frame[t].op = "delete_bucket"
    /\ Return(t, frame[t],
              LogOutcome(Unwrap(frame[t].result),
                         "Deleted successfully " \o Self(t).bucket_name,
                         "Deletion of " \o Self(t).bucket_name \o " failed."), Unit)

\* upload: lines 127-142
UploadCall(t, object_name, object_bytes, cache_control, content_type) ==
    /\ CanCall(t)
    /\ Send(t, [NoFrame EXCEPT !.op = "upload", !.object_name = object_name,
                               !.object_bytes = object_bytes,
                               !.cache_control = cache_control,
                               !.content_type = content_type],
            UploadRequest(Self(t), object_name, object_bytes, cache_control, content_type))

\* upload: lines 144-151
UploadReturn(t) ==
    /\ pc[t] = "resume" /\ frame[t].op = "upload"
    /\ Return(t, frame[t],
              LogOutcome(Unwrap(frame[t].result),
                         "Uploaded successfully " \o frame[t].object_name \o " to "
                             \o Self(t).bucket_name,
                         "Upload of " \o frame[t].object_name \o " to "
                             \o Self(t).bucket_name \o " failed."), Unit)

\* delete: lines 183-188
DeleteCall(t, object_name) ==
    /\ CanCall(t)
    /\ Send(t, [NoFrame EXCEPT !.op = "delete", !.object_name = object_name],
            DeleteRequest(Self(t), object_name))

\* delete: lines 190-197
DeleteReturn(t) ==
    /\ pc[t] = "resume" /\ frame[t].op = "delete"
    /\ Return(t, frame[t],
              LogOutcome(Unwrap(frame[t].result),
                         "Deleted successfully " \o frame[t].object_name \o " from "
                             \o Self(t).bucket_name,
                         "Deletion of " \o frame[t].object_name \o " from "
                             \o Self(t).bucket_name \o " failed."), Unit)

\* get: lines 158-163
GetCall(t, object_name) ==
    /\ CanCall(t)
    /\ Send(t, [NoFrame EXCEPT !.op = "get", !.object_name = object_name],
            GetRequest(Self(t), object_name))

\* get, the request failed: lines 172-176
GetReturnEmptyBytes(t) ==
    /\ pc[t] = "resume" /\ frame[t].op = "get"
    /\ ~IsOk(Unwrap(frame[t].result))
    /\ Return(t, frame[t],
              << <<"debug", "{:?}">>,
                 <<"error", "Unable to get " \o frame[t].object_name \o " from "
                                \o Self(t).bucket_name \o ".">> >>, Some(<<>>))
GetReturnNone(t) ==
    /\ pc[t] = "resume" /\ frame[t].op = "get"
    /\ ~IsOk(Unwrap(frame[t].result))
    /\ Return(t, frame[t],
              << <<"debug", "{:?}">>,
                 <<"error", "Unable to get " \o frame[t].object_name \o " from "
                                \o Self(t).bucket_name \o ".">> >>, None)

\* get, the request succeeded, up to the await of body.collect(): lines 165-169
GetCollectCall(t) ==
    /\ pc[t] = "resume" /\ frame[t].op = "get"
    /\ IsOk(Unwrap(frame[t].result))
    /\ frame' = [frame EXCEPT ![t] =
          [@ EXCEPT !.body = Some(Unwrap(frame[t].result)[2].body), !.result = None,
                    !.log = @ \o << <<"debug", "{:?}">>,
                                    <<"info", "Got successfully " \o frame[t].object_name
                                                  \o " from " \o Self(t).bucket_name>> >>]]
    /\ pc' = [pc EXCEPT ![t] = "collect"]
    /\ UNCHANGED <<env, clients, mgr, newf, calls, store, lastWriter>>

\* get, the body was drained: .unwrap().into_bytes().to_vec(), return Some(bytes)
GetReturnSome(t) ==
    /\ pc[t] = "collect"
    /\ frame' = [frame EXCEPT ![t] =
          [@ EXCEPT !.ret = Some(Some(Collect(Unwrap(frame[t].body)))), !.body = None,
                    !.outcome = "ok"]]
    /\ pc' = [pc EXCEPT ![t] = "idle"]
    /\ UNCHANGED <<env, clients, mgr, newf, calls, store, lastWriter>>

\* get, the transport failed while the body was drained: collect() is Err and
\* .unwrap() panics (line 169)
GetCollectPanic(t) ==
    /\ pc[t] = "collect"
    /\ frame' = [frame EXCEPT ![t] = [@ EXCEPT !.body = None, !.outcome = "err"]]
    /\ pc' = [pc EXCEPT ![t] = "panicked"]
    /\ UNCHANGED <<env, clients, mgr, newf, calls, store, lastWriter>>

-----------------------------------------------------------------------------
(* The transport and the store: what send().await resolves to *)

Faults == {"DispatchFailure", "AccessDenied", "ResponseError"}

\* the request reaches the store, which answers
ServeOk(t) ==
    /\ pc[t] = "send"
    /\ LET req == Unwrap(frame[t].request)
           r == Service(store, req)
       IN /\ store' = r.store
          /\ lastWriter' = IF r.applied /\ Writes(req)
                           THEN [lastWriter EXCEPT ![Unwrap(req.key)] = t]
                           ELSE lastWriter
          /\ frame' = [frame EXCEPT ![t] =
                [@ EXCEPT !.request = None, !.result = Some(r.result),
                          !.applied = r.applied]]
    /\ pc' = [pc EXCEPT ![t] = "resume"]
    /\ UNCHANGED <<env, clients, mgr, newf, calls>>

\* the request never reaches the store (DispatchFailure), or is refused
\* (AccessDenied): send() is Err and the store is untouched
ServeRefused(t, fault) ==
    /\ pc[t] = "send"
    /\ fault \in {"DispatchFailure", "AccessDenied"}
    /\ frame' = [frame EXCEPT ![t] = [@ EXCEPT !.request = None, !.result = Some(Err(fault))]]
    /\ pc' = [pc EXCEPT ![t] = "resume"]
    /\ UNCHANGED <<env, clients, mgr, newf, calls, store, lastWriter>>

\* the store applies the request but the response is lost: send() is Err
ServeResponseLost(t) ==
    /\ pc[t] = "send"
    /\ LET req == Unwrap(frame[t].request)
           r == Service(store, req)
       IN /\ store' = r.store
          /\ lastWriter' = IF r.applied /\ Writes(req)
                           THEN [lastWriter EXCEPT ![Unwrap(req.key)] = t]
                           ELSE lastWriter
          /\ frame' = [frame EXCEPT ![t] =
                [@ EXCEPT !.request = None, !.result = Some(Err("ResponseError")),
                          !.applied = r.applied]]
    /\ pc' = [pc EXCEPT ![t] = "resume"]
    /\ UNCHANGED <<env, clients, mgr, newf, calls>>

-----------------------------------------------------------------------------
(* Spec: the tasks hold clones of one R2Manager *)

\* R2Manager::new("test-bucket", Http("http://localhost:9000"), "k", "s", None)
\* has returned in task 1 and every other task holds a clone of the result; the
\* bucket may or may not exist yet.
Init ==
    /\ InitCommon
    /\ env = [credentials_provider |-> None, endpoint_url |-> None, region |-> None]
    /\ clients = [t \in Tasks |->
          IF t = 1
          THEN Some(BuildConfig(LoadFromEnv(env), NewCredentials("k", "s"),
                                ResolveEndpoint(Http("http://localhost:9000"),
                                                ResolveRegion(None)),
                                ResolveRegion(None)))
          ELSE None]
    /\ mgr = [t \in Tasks |-> Some([bucket_name |-> "test-bucket", client |-> 1])]
    /\ store \in {[x \in BucketNames |-> None],
                  [x \in BucketNames |-> IF x = "test-bucket" THEN Some(EmptyBucket) ELSE None]}
    /\ pc = [t \in Tasks |-> "idle"]
    /\ newf = [t \in Tasks |-> NoNewFrame]

Next ==
    \E t \in Tasks :
        \/ GetBucketNameCall(t)
        \/ CreateBucketCall(t)
        \/ CreateBucketReturn(t)
        \/ DeleteBucketCall(t)
        \/ DeleteBucketReturn(t)
        \/ \E k \in Keys, b \in Bodies, cc \in OptionOf(CacheControls),
              ct \in OptionOf(ContentTypes) : UploadCall(t, k, b, cc, ct)
        \/ UploadReturn(t)
        \/ \E k \in Keys : DeleteCall(t, k)
        \/ DeleteReturn(t)
        \/ \E k \in Keys : GetCall(t, k)
        \/ GetReturnNone(t)
        \/ GetCollectCall(t)
        \/ GetReturnSome(t)
        \/ GetCollectPanic(t)
        \/ ServeOk(t)
        \/ \E fault \in Faults : ServeRefused(t, fault)
        \/ ServeResponseLost(t)

Spec == Init /\ [][Next]_vars

-----------------------------------------------------------------------------
(* Properties of R2Manager::new (checked under SpecNew) *)

\* the configuration of the client task t's manager points to
ConfigOf(t) == Unwrap(clients[Unwrap(mgr[t]).client])

\* C1: the endpoint URL handed to the SDK configuration is exactly the literal
\* URI under R2Endpoint::Http(uri), whatever the region argument, and exactly
\* "https://s3.<region>.amazonaws.com" under R2Endpoint::Bucket, with <region>
\* the region argument or, without one, "us-east-1".
C1_EndpointResolution ==
    \A t \in Tasks :
        pc[t] = "ready" =>
            LET a == newf[t]
                cfg == ConfigOf(t)
            IN /\ a.endpoint[1] = "Http" => cfg.endpoint_url = Some(a.endpoint[2])
               /\ a.endpoint = Bucket =>
                     \E r \in Regions \cup {"us-east-1"} :
                         /\ a.region_arg = Some(r) \/ (a.region_arg = None /\ r = "us-east-1")
                         /\ cfg.endpoint_url = Some("https://s3." \o r \o ".amazonaws.com")

\* both selectors have been resolved, with an explicit region
C1_Witness ==
    \E t, u \in Tasks :
        /\ pc[t] = "ready" /\ pc[u] = "ready"
        /\ newf[t].endpoint = Bucket /\ newf[t].region_arg = Some("eu-west-1")
        /\ ConfigOf(t).endpoint_url = Some("https://s3.eu-west-1.amazonaws.com")
        /\ newf[u].endpoint = Http("http://localhost:9000") /\ newf[u].region_arg = Some("eu-west-1")
        /\ ConfigOf(u).endpoint_url = Some("http://localhost:9000")

\* C2: a region argument of None resolves to "us-east-1" and Some(r) to r; the
\* resolved region is the SDK configuration's region and the one the Bucket
\* endpoint is derived from, so Bucket with None gives
\* "https://s3.us-east-1.amazonaws.com".
C2_RegionResolution ==
    \A t \in Tasks :
        pc[t] = "ready" =>
            LET a == newf[t]
                cfg == ConfigOf(t)
            IN /\ a.region_arg = None => cfg.region = Some("us-east-1")
               /\ IsSome(a.region_arg) => cfg.region = Some(Unwrap(a.region_arg))
               /\ a.endpoint = Bucket =>
                     cfg.endpoint_url =
                         Some("https://s3." \o Unwrap(cfg.region) \o ".amazonaws.com")
               /\ (a.endpoint = Bucket /\ a.region_arg = None) =>
                     cfg.endpoint_url = Some("https://s3.us-east-1.amazonaws.com")

\* a client was built for R2Endpoint::Bucket without a region
C2_Witness ==
    \E t \in Tasks :
        /\ pc[t] = "ready"
        /\ newf[t].endpoint = Bucket /\ newf[t].region_arg = None
        /\ ConfigOf(t).region = Some("us-east-1")

\* every constructed client holds the bucket, credentials, region and endpoint
\* of its own call
C9_OwnConfiguration ==
    \A t \in Tasks :
        pc[t] = "ready" =>
            LET a == newf[t]
                cfg == ConfigOf(t)
                cred == Unwrap(cfg.credentials_provider)
            IN /\ Unwrap(mgr[t]).bucket_name = a.bucket_name
               /\ cred.access_key_id = a.client_id
               /\ cred.secret_access_key = a.secret
               /\ cfg.region = IF IsSome(a.region_arg) THEN a.region_arg ELSE Some("us-east-1")
               /\ a.endpoint[1] = "Http" => cfg.endpoint_url = Some(a.endpoint[2])
               /\ a.endpoint = Bucket =>
                     cfg.endpoint_url =
                         Some("https://s3." \o Unwrap(cfg.region) \o ".amazonaws.com")

\* a step of any task leaves the environment and every client built earlier as
\* they were
C9_NoSharedWrites ==
    /\ env' = env
    /\ \A u \in Tasks :
          (pc[u] = "ready" /\ pc'[u] = "ready") =>
              (clients'[u] = clients[u] /\ mgr'[u] = mgr[u])

\* C9: under every interleaving of concurrent R2Manager::new calls, each
\* resulting client holds exactly the endpoint, region, credentials and bucket
\* name of its own call; construction writes no process-wide state (the
\* environment is only read) and never changes a client built earlier.
C9_IndependentConfiguration == []C9_OwnConfiguration /\ [][C9_NoSharedWrites]_vars

\* two clients built from calls that differ in every argument, under an
\* environment that provides defaults of its own
C9_Witness ==
    /\ IsSome(env.region)
    /\ pc[1] = "ready" /\ pc[2] = "ready"
    /\ newf[1].bucket_name # newf[2].bucket_name
    /\ newf[1].endpoint # newf[2].endpoint
    /\ newf[1].client_id # newf[2].client_id
    /\ newf[1].secret # newf[2].secret
    /\ newf[1].region_arg # newf[2].region_arg
    /\ ConfigOf(1) # ConfigOf(2)

-----------------------------------------------------------------------------
(* Properties of the operations (checked under Spec) *)

\* the object the store holds at key k of bucket b, or None
ObjectAt(b, k) == IF IsSome(store[b]) THEN Unwrap(store[b])[k] ELSE None

\* task t's call of get has ended: it returned, or it panicked
GetEnded(t) == frame[t].op = "get" /\ pc[t] \in {"idle", "panicked"}

\* task t's upload to the key of its get is the last write the store applied
\* to that key, and the object is still there
OwnUploadStands(t) ==
    /\ lastWriter[frame[t].object_name] = t
    /\ IsSome(ObjectAt(Self(t).bucket_name, frame[t].object_name))

\* C3, as claimed: when an upload succeeded at the store and nothing else
\* touched the key, a following get(key) on the same client returns Some(bytes)
\* with exactly the uploaded bytes, whatever headers the upload carried.
C3_RoundTrip ==
    \A t \in Tasks :
        (GetEnded(t) /\ OwnUploadStands(t)) =>
            frame[t].ret =
                Some(Some(Unwrap(ObjectAt(Self(t).bucket_name, frame[t].object_name)).body))

\* C3, amended: under the same condition a get(key) whose request and body drain
\* both succeed returns Some(bytes) with exactly the uploaded bytes, whatever
\* headers the upload carried; a get whose request fails returns None, a get
\* whose drain fails does not return, and no get returns other bytes.
C3_RoundTripWhenGetSucceeds ==
    \A t \in Tasks :
        (GetEnded(t) /\ OwnUploadStands(t)) =>
            LET f == frame[t]
                bytes == Unwrap(ObjectAt(Self(t).bucket_name, f.object_name)).body
            IN /\ (pc[t] = "idle" /\ f.outcome = "ok") => f.ret = Some(Some(bytes))
               /\ (pc[t] = "idle" /\ f.outcome = "err") => f.ret = Some(None)
               /\ pc[t] = "panicked" => f.ret = None
               /\ (IsSome(f.ret) /\ IsSome(Unwrap(f.ret))) => Unwrap(f.ret) = Some(bytes)

\* a task uploaded two bytes with both headers set and got them back
C3_Witness ==
    \E t \in Tasks :
        /\ GetEnded(t) /\ OwnUploadStands(t)
        /\ frame[t].outcome = "ok"
        /\ frame[t].ret = Some(Some(<<104, 105>>))
        /\ IsSome(Unwrap(ObjectAt(Self(t).bucket_name, frame[t].object_name)).cache_control)
        /\ IsSome(Unwrap(ObjectAt(Self(t).bucket_name, frame[t].object_name)).content_type)

\* C4: the put-object request carries a Cache-Control header iff cache_control
\* is Some(v), then with value v, and a Content-Type header iff content_type is
\* Some(v), then with value v; a None argument never yields an empty header.
C4_HeaderAttachment ==
    \A t \in Tasks :
        (frame[t].op = "upload" /\ pc[t] = "send") =>
            LET f == frame[t]
                req == Unwrap(f.request)
            IN /\ IsSome(req.cache_control) <=> IsSome(f.cache_control)
               /\ IsSome(f.cache_control) => Unwrap(req.cache_control) = Unwrap(f.cache_control)
               /\ IsSome(req.content_type) <=> IsSome(f.content_type)
               /\ IsSome(f.content_type) => Unwrap(req.content_type) = Unwrap(f.content_type)
               /\ f.cache_control = None => req.cache_control # Some("")
               /\ f.content_type = None => req.content_type # Some("")

\* a request in flight with one header set and the other omitted, and another
\* with the headers the other way round
C4_Witness ==
    \E t, u \in Tasks :
        /\ frame[t].op = "upload" /\ pc[t] = "send"
        /\ frame[t].cache_control = None /\ frame[t].content_type = Some("text/plain")
        /\ Unwrap(frame[t].request).cache_control = None
        /\ frame[u].op = "upload" /\ pc[u] = "send"
        /\ frame[u].cache_control = Some("max-age=60") /\ frame[u].content_type = None
        /\ Unwrap(frame[u].request).content_type = None

\* C5: whenever the get-object round trip fails, for whatever cause and at
\* whatever point (the drain of the response body included), get returns None
\* and does not panic.
C5_GetCollapsesFailures ==
    \A t \in Tasks :
        frame[t].op = "get" =>
            /\ pc[t] # "panicked"
            /\ (pc[t] = "idle" /\ frame[t].outcome = "err") => frame[t].ret = Some(None)

UploadStands(t) ==
    /\ frame[t].op = "upload" /\ frame[t].applied
    /\ lastWriter[frame[t].object_name] = t

\* C7: concurrent uploads to distinct keys on clones of one R2Manager do not
\* interfere: each request in flight carries the key, body and headers of its
\* own call, and once the store applied both, it holds each call's bytes (and
\* headers) at that call's key.
C7_ConcurrentUploads ==
    /\ \A t \in Tasks :
          (frame[t].op = "upload" /\ pc[t] = "send") =>
              LET f == frame[t]
                  req == Unwrap(f.request)
              IN /\ req.operation = "PutObject"
                 /\ req.key = Some(f.object_name)
                 /\ Collect(Unwrap(req.body)) = f.object_bytes
                 /\ req.cache_control = f.cache_control
                 /\ req.content_type = f.content_type
    /\ \A t, u \in Tasks :
          (/\ t # u
           /\ UploadStands(t) /\ UploadStands(u)
           /\ frame[t].object_name # frame[u].object_name) =>
              \A x \in {t, u} :
                  LET o == ObjectAt(Self(x).bucket_name, frame[x].object_name)
                  IN /\ IsSome(o)
                     /\ Unwrap(o).body = frame[x].object_bytes
                     /\ pc[x] = "resume" =>
                           /\ Unwrap(o).cache_control = frame[x].cache_control
                           /\ Unwrap(o).content_type = frame[x].content_type

\* two uploads of different bytes to different keys, both applied by the store
\* while neither call has returned
C7_Witness ==
    /\ pc[1] = "resume" /\ pc[2] = "resume"
    /\ UploadStands(1) /\ UploadStands(2)
    /\ frame[1].object_name # frame[2].object_name
    /\ frame[1].object_bytes # frame[2].object_bytes
    /\ Unwrap(mgr[1]).client = Unwrap(mgr[2]).client

Mutations == {"create_bucket", "delete_bucket", "upload", "delete"}

\* the lines of a log at one level
RECURSIVE AtLevel(_, _)
AtLevel(log, level) ==
    IF log = <<>> THEN <<>>
    ELSE (IF Head(log)[1] = level THEN <<Head(log)[2]>> ELSE <<>>) \o AtLevel(Tail(log), level)

\* the info line each mutation method writes on success
InfoLine(f, bucket) ==
    CASE f.op = "create_bucket" -> "Created successfully " \o bucket
      [] f.op = "delete_bucket" -> "Deleted successfully " \o bucket
      [] f.op = "upload" -> "Uploaded successfully " \o f.object_name \o " to " \o bucket
      [] OTHER -> "Deleted successfully " \o f.object_name \o " from " \o bucket

\* the error line each mutation method writes on failure
ErrorLine(f, bucket) ==
    CASE f.op = "create_bucket" -> "Creation of " \o bucket \o " failed."
      [] f.op = "delete_bucket" -> "Deletion of " \o bucket \o " failed."
      [] f.op = "upload" -> "Upload of " \o f.object_name \o " to " \o bucket \o " failed."
      [] OTHER -> "Deletion of " \o f.object_name \o " from " \o bucket \o " failed."

\* C8: create_bucket, delete_bucket, upload and delete return () whether the
\* request succeeded or failed and never panic; on success they write exactly
\* the info line and no error line, on failure exactly the error line and no
\* info line.
C8_MutationsSwallowErrors ==
    \A t \in Tasks :
        frame[t].op \in Mutations =>
            /\ pc[t] \in {"send", "resume", "idle"}
            /\ pc[t] = "idle" =>
                  LET f == frame[t]
                      b == Self(t).bucket_name
                  IN /\ f.ret = Some(Unit)
                     /\ f.outcome \in {"ok", "err"}
                     /\ f.outcome = "ok" =>
                           /\ AtLevel(f.log, "info") = <<InfoLine(f, b)>>
                           /\ AtLevel(f.log, "error") = <<>>
                     /\ f.outcome = "err" =>
                           /\ AtLevel(f.log, "error") = <<ErrorLine(f, b)>>
                           /\ AtLevel(f.log, "info") = <<>>

\* one task's upload failed and returned, another's delete succeeded and returned
C8_Witness ==
    \E t, u \in Tasks :
        /\ pc[t] = "idle" /\ frame[t].op = "upload" /\ frame[t].outcome = "err"
        /\ AtLevel(frame[t].log, "error") = <<"Upload of obj1 to test-bucket failed.">>
        /\ pc[u] = "idle" /\ frame[u].op = "delete" /\ frame[u].outcome = "ok"
        /\ AtLevel(frame[u].log, "info") = <<"Deleted successfully test from test-bucket">>

Requesting == {"create_bucket", "delete_bucket", "upload", "get", "delete"}

\* C10: every call of create_bucket, delete_bucket, upload, get or delete sends
\* exactly one request, addressed to the bucket name given at construction,
\* which get_bucket_name returns and no operation changes; a failed request is
\* not sent again.
C10_OneRequestPerCall ==
    \A t \in Tasks :
        /\ Unwrap(mgr[t]).bucket_name = "test-bucket"
        /\ frame[t].op \in Requesting => frame[t].nreq = 1
        /\ pc[t] = "send" => Unwrap(frame[t].request).bucket = Some("test-bucket")
        /\ frame[t].op = "get_bucket_name" =>
              (frame[t].ret = Some("test-bucket") /\ frame[t].nreq = 0)

\* a get whose request failed has returned, and a request of the other task is
\* in flight
C10_Witness ==
    \E t, u \in Tasks :
        /\ pc[t] = "idle" /\ frame[t].op = "get" /\ frame[t].outcome = "err"
        /\ frame[t].nreq = 1
        /\ pc[u] = "send" /\ Unwrap(frame[u].request).bucket = Some("test-bucket")

====
